---- MODULE Spec2Model ----
(***************************************************************************)
(* The "weigh a black hole" Cubeviz notebook (src/unnamed/part_000) as a   *)
(* state machine.  The state is the kernel namespace (the names the cells  *)
(* bind), the Cubeviz session the cells talk to (its subsets, the Line     *)
(* Analysis plugin's selection, the Plot Options plugin) and the outcome   *)
(* of the cell executed last.  One action per notebook cell; the user may  *)
(* execute the cells in any order and any number of times, and may create  *)
(* a spectral subset interactively at any moment.                          *)
(*                                                                         *)
(* Numbers are integers.  Every formula keeps the operations of the code   *)
(* and rounds its result toward zero to a whole number of the unit stated  *)
(* with it: wavelengths in 1e-3 um, velocities in 100 km/s, masses in 1e5  *)
(* M_sun, lengths in pc, angles in milli-arcsec.                           *)
(***************************************************************************)
EXTENDS Integers, Sequences, FiniteSets, TLC

VARIABLES
    cube,      \* the loaded data: per region, what Line Analysis measures there
    subsets,   \* the session's subsets; subsets[N] is the one named 'Subset N'
    la,        \* Line Analysis plugin: spatial_subset, spectral_subset (0 = the default entry)
    po,        \* Plot Options plugin: viewer, layer, line_opacity, line_width
    ns,        \* kernel namespace: name -> <<>> (unbound) or <<value>>
    last,      \* id of the cell executed last ("none" before the first)
    err,       \* exception type that ended that cell, "none" when it completed
    fn,        \* the formula applied last on its own, with its operands and result
    viz        \* the rest of the Cubeviz application: the subset being edited, the
               \* toolbars, the Moment Maps and Spectral Extraction plugins, the
               \* results they added, and how far the notebook has been run

vars == <<cube, subsets, la, po, ns, last, err, fn, viz>>

(***************************************************************************)
(* Bounds of the model.                                                    *)
(***************************************************************************)
MaxSubsets == 5       \* subsets a session may hold
MaxVel == 4           \* |velocity| operands tried on the formulas, 100 km/s
MaxRadius == 3        \* |radius| operands tried on the formulas, pc
MaxShift == 2         \* |wavelength shift| operands tried on the formulas, 1e-3 um
MaxAngle == 3         \* angle operands tried on the formulas, arcsec
MaxEarlier == 9       \* subsets a session holds when the two regions are loaded
MaxReruns == 2        \* cells executed out of their turn in a run of the NIRSpec notebook

(***************************************************************************)
(* Values.  A value is [k, v, d]: k its kind ("num" a finite number, "nan",*)
(* "posinf", "neginf", "array" a sequence of numbers, "raise" an exception *)
(* instead of a value), v the number (or the sequence), d the physical     *)
(* dimension as exponents <<length, mass, time, angle>> in hundredths (so  *)
(* that the power 4.02 has one), or <<>> for a plain Python number that    *)
(* carries no unit.                                                        *)
(***************************************************************************)
Plain == <<>>
DimLess == <<0, 0, 0, 0>>
Length == <<100, 0, 0, 0>>
Mass == <<0, 100, 0, 0>>
Angle == <<0, 0, 0, 100>>
Velocity == <<100, 0, -100, 0>>
Volume == <<300, 0, 0, 0>>
Density == <<-300, 100, 0, 0>>
GDim == <<300, -100, -200, 0>>

Num(n, dim) == [k |-> "num", v |-> n, d |-> dim]
NaN(dim) == [k |-> "nan", v |-> 0, d |-> dim]
PosInf(dim) == [k |-> "posinf", v |-> 0, d |-> dim]
NegInf(dim) == [k |-> "neginf", v |-> 0, d |-> dim]
Raise(type) == [k |-> "raise", v |-> 0, d |-> <<type>>]

IsRaise(x) == x.k = "raise"
IsNum(x) == x.k = "num"
IsQuantity(x) == x.d # Plain
ErrorOf(x) == IF IsRaise(x) THEN x.d[1] ELSE "none"

\* a / b rounded toward zero (b # 0)
Trunc(a, b) ==
    LET q == (IF a < 0 THEN -a ELSE a) \div (IF b < 0 THEN -b ELSE b)
    IN  IF (a < 0) = (b < 0) THEN q ELSE -q

\* dimension of a product / quotient / power; a plain number counts as dimensionless
DimOf(x) == IF x.d = Plain THEN DimLess ELSE x.d
DimMul(a, b) == [i \in 1..4 |-> a[i] + b[i]]
DimDiv(a, b) == [i \in 1..4 |-> a[i] - b[i]]
DimPow(a, hundredths) == [i \in 1..4 |-> (a[i] * hundredths) \div 100]

\* IEEE division of two finite numbers, scaled: (a * scale) / b
FloatDiv(a, scale, b, dim) ==
    IF b # 0 THEN Num(Trunc(a * scale, b), dim)
    ELSE IF a = 0 THEN NaN(dim)
    ELSE IF a > 0 THEN PosInf(dim)
    ELSE NegInf(dim)

(***************************************************************************)
(* The formulas of the cells, each as the cell writes it.                  *)
(***************************************************************************)
SpeedOfLight == 2998          \* c, in 100 km/s
MSigmaExponent == 402         \* 4.02, in hundredths
Log10BhMassLit == 239         \* 10 ** 7.38 M_sun, in 1e5 M_sun
Ngc7319Distance == 981        \* 98.1 Mpc, in 0.1 Mpc
NanoRadPerMas == 4848         \* 1 milli-arcsec = 4.848 nano-radian, in thousandths
InverseG == 2325              \* 1 / G = 23.25e5 M_sun / (pc (100 km/s)^2), in hundredths
FourThirdsPi == 4189          \* 4/3 * pi, in thousandths

\* 1.349e8 M_sun * (s / 200 km/s) ** 4.02 for s = 0, 1, 2, ... (100 km/s), in 1e5 M_sun
MSigmaTable ==
    <<0, 83, 1349, 6884, 21885, 53669, 111696, 207570, 355052, 570067, 870705,
      1277232, 1812090>>

\* Variant of DopplerRelativistic: c x / rest, the ratio taken for the shift
DopplerRatio(x, rest) ==
    IF ~IsQuantity(x) THEN Raise("AttributeError")
    ELSE IF rest.d # Length THEN Raise("UnitsError")
    ELSE IF x.d = Velocity THEN x
    ELSE IF x.d # Length THEN Raise("UnitConversionError")
    ELSE IF ~IsNum(x) \/ ~IsNum(rest) THEN NaN(Velocity)
    ELSE FloatDiv(x.v, SpeedOfLight, rest.v, Velocity)

\* x.to(u.km / u.s, u.doppler_relativistic(rest)): c (x^2 - rest^2) / (x^2 + rest^2)
\* A plain number has no .to; rest must be a wavelength; x a wavelength or a velocity.
DopplerRelativistic(x, rest) ==
    IF ~IsQuantity(x) THEN Raise("AttributeError")
    ELSE IF rest.d # Length THEN Raise("UnitsError")
    ELSE IF x.d = Velocity THEN x
    ELSE IF x.d # Length THEN Raise("UnitConversionError")
    ELSE IF ~IsNum(x) \/ ~IsNum(rest) THEN NaN(Velocity)
    ELSE FloatDiv(x.v * x.v - rest.v * rest.v, SpeedOfLight,
                  x.v * x.v + rest.v * rest.v, Velocity)

\* (centroid_wavelength + sigma_width).to(u.km / u.s, u.doppler_relativistic(centroid_wavelength))
\* a + b and a - b: the dimensions must agree; a plain number passes for a
\* dimensionless quantity, and a plain zero, inf or nan for any quantity
Addable(a, b) ==
    \/ DimOf(a) = DimOf(b)
    \/ ~IsQuantity(a) /\ (~IsNum(a) \/ a.v = 0)
    \/ ~IsQuantity(b) /\ (~IsNum(b) \/ b.v = 0)

SumDim(a, b) ==
    IF IsQuantity(a) THEN a.d
    ELSE IF IsQuantity(b) THEN b.d ELSE Plain

QuantityAdd(a, b) ==
    IF ~Addable(a, b) THEN Raise("UnitConversionError")
    ELSE IF ~IsNum(a) \/ ~IsNum(b) THEN NaN(SumDim(a, b))
    ELSE Num(a.v + b.v, SumDim(a, b))

QuantitySub(a, b) ==
    IF ~Addable(a, b) THEN Raise("UnitConversionError")
    ELSE IF ~IsNum(a) \/ ~IsNum(b) THEN NaN(SumDim(a, b))
    ELSE Num(a.v - b.v, SumDim(a, b))

VelocityDispersion(centroid, sigma) ==
    LET shifted == QuantityAdd(centroid, sigma)
    IN  IF IsRaise(shifted) THEN shifted ELSE DopplerRelativistic(shifted, centroid)

\* 1.349e8 M_sun * (200 km/s / s) ** 4.02 for s = 1, 2, ... (100 km/s), in 1e5 M_sun
InvertedTable ==
    <<21885, 1349, 264, 83, 33, 16, 8, 5, 3, 2, 1, 1>>

\* Variant of BlackHoleMass: the ratio upside down, 200 km/s over the dispersion
BlackHoleMassInverted(sigma_velocity) ==
    LET dim == DimMul(Mass, DimPow(DimDiv(Velocity, DimOf(sigma_velocity)), MSigmaExponent))
    IN  CASE sigma_velocity.k = "nan" -> NaN(dim)
          [] sigma_velocity.k \in {"posinf", "neginf"} -> Num(0, dim)
          [] sigma_velocity.v < 0 -> NaN(dim)
          [] sigma_velocity.v = 0 -> PosInf(dim)
          [] OTHER -> Num(InvertedTable[sigma_velocity.v], dim)

\* Variant of BlackHoleMass: the power is taken of the magnitude of the ratio
BlackHoleMassOfMagnitude(sigma_velocity) ==
    LET dim == DimMul(Mass, DimPow(DimDiv(DimOf(sigma_velocity), Velocity), MSigmaExponent))
        magnitude == IF sigma_velocity.v < 0 THEN -sigma_velocity.v ELSE sigma_velocity.v
    IN  CASE sigma_velocity.k = "nan" -> NaN(dim)
          [] sigma_velocity.k \in {"posinf", "neginf"} -> PosInf(dim)
          [] OTHER -> Num(MSigmaTable[magnitude + 1], dim)

\* 1.349e8 * u.M_sun * (velocity_dispersion / (200 * u.km / u.s)) ** 4.02
BlackHoleMass(sigma_velocity) ==
    LET dim == DimMul(Mass, DimPow(DimDiv(DimOf(sigma_velocity), Velocity), MSigmaExponent))
    IN  CASE sigma_velocity.k = "nan" -> NaN(dim)
          [] sigma_velocity.k \in {"posinf", "neginf"} -> PosInf(dim)
          [] sigma_velocity.v < 0 -> NaN(dim)
          [] OTHER -> Num(MSigmaTable[sigma_velocity.v + 1], dim)

\* Variant of FractionalError: the difference over the literature value
FractionalErrorOverReference(measured) ==
    LET diff == QuantitySub(measured, Num(Log10BhMassLit, Mass))
        dim == DimDiv(DimOf(measured), Mass)
    IN  IF IsRaise(diff) THEN diff
        ELSE IF ~IsNum(diff) \/ ~IsNum(measured) THEN NaN(dim)
        ELSE FloatDiv(diff.v, 1000, Log10BhMassLit, dim)

\* (bh_mass - u.M_sun * 10**log10_bh_mass_lit) / bh_mass, in thousandths
FractionalError(measured) ==
    LET diff == QuantitySub(measured, Num(Log10BhMassLit, Mass))
        dim == DimDiv(Mass, DimOf(measured))
    IN  IF IsRaise(diff) THEN diff
        ELSE IF ~IsNum(diff) \/ ~IsNum(measured) THEN NaN(dim)
        ELSE FloatDiv(diff.v, 1000, measured.v, dim)

\* Variants of ToValueRad.
\* (1) angular_separation.to(u.rad): the radians keep their unit
ToRadQuantity(angle) ==
    IF ~IsQuantity(angle) THEN Raise("AttributeError")
    ELSE IF angle.d # Angle THEN Raise("UnitConversionError")
    ELSE IF ~IsNum(angle) THEN NaN(Angle)
    ELSE Num(Trunc(angle.v * NanoRadPerMas, 1000), Angle)

\* (2) angular_separation.value: the number as it stands, not in radians
ToValueAsIs(angle) ==
    IF ~IsQuantity(angle) THEN Raise("AttributeError")
    ELSE IF angle.d # Angle THEN Raise("UnitConversionError")
    ELSE IF ~IsNum(angle) THEN NaN(Plain)
    ELSE Num(angle.v, Plain)

\* angular_separation.to_value(u.rad): a plain number, in nano-radian
ToValueRad(angle) ==
    IF ~IsQuantity(angle) THEN Raise("AttributeError")
    ELSE IF angle.d # Angle THEN Raise("UnitConversionError")
    ELSE IF ~IsNum(angle) THEN NaN(Plain)
    ELSE Num(Trunc(angle.v * NanoRadPerMas, 1000), Plain)

\* (ngc7319_distance * angular_separation.to_value(u.rad)).to(u.pc) / 2, in pc
ProjectedDistance(angular_separation) ==
    LET rad == ToValueRad(angular_separation)
        dim == DimMul(Length, DimOf(rad))
    IN  IF IsRaise(rad) THEN rad
        ELSE IF dim # Length THEN Raise("UnitConversionError")
        ELSE IF ~IsNum(rad) THEN NaN(Length)
        ELSE Num(Trunc(Trunc(Ngc7319Distance * rad.v, 10000), 2), Length)

\* Variant of RotationVelocity: relative to the other centroid, not to the mean
RotationVelocityFromFirst(centroids) ==
    IF Len(centroids.v) < 2 THEN Raise("IndexError")
    ELSE DopplerRelativistic(Num(centroids.v[2], centroids.d),
                             Num(centroids.v[1], centroids.d))

\* wavelength_centroids[1].to(u.km / u.s, u.doppler_relativistic(wavelength_centroids.mean()))
\* (both operands doubled, which leaves the ratio as it is and the mean whole)
RotationVelocity(centroids) ==
    IF Len(centroids.v) < 2 THEN Raise("IndexError")
    ELSE DopplerRelativistic(Num(2 * centroids.v[2], centroids.d),
                             Num(centroids.v[1] + centroids.v[2], centroids.d))

\* Variant of EnclosedMass: rotation_velocity**2 / (projected_distance_from_center * G)
EnclosedMassPerRadius(radius, velocity) ==
    LET dim == DimDiv(DimDiv(DimPow(DimOf(velocity), 200), DimOf(radius)), GDim)
    IN  IF dim # Mass THEN Raise("UnitConversionError")
        ELSE IF ~IsNum(radius) \/ ~IsNum(velocity) THEN NaN(Mass)
        ELSE FloatDiv(velocity.v * velocity.v * InverseG, 1, 100 * radius.v, Mass)

\* Variant of EnclosedMass: the square keeps the sign of the velocity
EnclosedMassSigned(radius, velocity) ==
    LET dim == DimDiv(DimMul(DimOf(radius), DimPow(DimOf(velocity), 200)), GDim)
        magnitude == IF velocity.v < 0 THEN -velocity.v ELSE velocity.v
    IN  IF dim # Mass THEN Raise("UnitConversionError")
        ELSE IF ~IsNum(radius) \/ ~IsNum(velocity) THEN NaN(Mass)
        ELSE Num(Trunc(radius.v * velocity.v * magnitude * InverseG, 100), Mass)

\* (projected_distance_from_center * rotation_velocity**2 / G).to(u.M_sun), in 1e5 M_sun
EnclosedMass(radius, velocity) ==
    LET dim == DimDiv(DimMul(DimOf(radius), DimPow(DimOf(velocity), 200)), GDim)
    IN  IF dim # Mass THEN Raise("UnitConversionError")
        ELSE IF ~IsNum(radius) \/ ~IsNum(velocity) THEN NaN(Mass)
        ELSE Num(Trunc(radius.v * velocity.v * velocity.v * InverseG, 100), Mass)

\* float(min_enclosed_mass / bh_mass), in hundredths
MassFraction(enclosed, bh) ==
    IF DimDiv(DimOf(enclosed), DimOf(bh)) # DimLess THEN Raise("TypeError")
    ELSE IF ~IsNum(enclosed) \/ ~IsNum(bh) THEN NaN(Plain)
    ELSE FloatDiv(enclosed.v, 100, bh.v, Plain)

\* 4/3 * np.pi * projected_distance_from_center ** 3, in pc^3
SphereVolume(radius) ==
    LET cubed == radius.v * radius.v * radius.v
        whole == Trunc(cubed, 1000)
        dim == DimPow(DimOf(radius), 300)
    IN  IF ~IsNum(radius) THEN NaN(dim)
        ELSE Num(whole * FourThirdsPi
                   + Trunc((cubed - whole * 1000) * FourThirdsPi, 1000), dim)

\* Variant of SphereDensity: an empty volume is given the density 0
SphereDensityGuarded(mass, volume) ==
    LET dim == DimDiv(DimOf(mass), DimOf(volume))
    IN  IF ~IsNum(mass) \/ ~IsNum(volume) THEN NaN(dim)
        ELSE IF volume.v = 0 THEN Num(0, dim)
        ELSE FloatDiv(mass.v, 1000, volume.v, dim)

\* min_enclosed_mass / volume, in 100 M_sun / pc^3
SphereDensity(mass, volume) ==
    LET dim == DimDiv(DimOf(mass), DimOf(volume))
    IN  IF ~IsNum(mass) \/ ~IsNum(volume) THEN NaN(dim)
        ELSE FloatDiv(mass.v, 1000, volume.v, dim)

(***************************************************************************)
(* The Cubeviz session.                                                    *)
(***************************************************************************)
Regions == {"central", "a", "b"}          \* central_region, regions[0], regions[1]

\* What Line Analysis reports for the line in each region, for the cube as a
\* whole ("cube") and for a region's entire spectrum ("spectrum").
RotatingCube ==
    [r \in Regions \cup {"cube", "spectrum"} |->
        CASE r = "central" -> [centroid |-> 1000, sigma |-> 2]
          [] r = "a" -> [centroid |-> 1002, sigma |-> 3]
          [] r = "b" -> [centroid |-> 998, sigma |-> 1]
          [] r = "cube" -> [centroid |-> 1000, sigma |-> 4]
          [] OTHER -> [centroid |-> 1006, sigma |-> 5]]

UnresolvedCube ==
    [r \in Regions \cup {"cube", "spectrum"} |-> [centroid |-> 1000, sigma |-> 0]]

Cubes == {RotatingCube, UnresolvedCube}

\* sky separation of the centres of regions[0] and regions[1], milli-arcsec
SeparationMas == 1970

SpatialSubset(region) == [kind |-> "spatial", region |-> region]
SpectralSubset == [kind |-> "spectral", region |-> "line"]

\* the subset numbers N offered by each selector besides its default entry
SpatialChoices == {i \in 1..Len(subsets) : subsets[i].kind = "spatial"}
SpectralChoices == {i \in 1..Len(subsets) : subsets[i].kind = "spectral"}

\* cubeviz.load_regions(list): one new subset per region, named by the next numbers
LoadRegions(list) == subsets \o [i \in 1..Len(list) |-> SpatialSubset(list[i])]

\* line_analysis.get_results() with the plugin's selection (spatial, spectral)
GetResults(spatial, spectral) ==
    IF spectral = 0 THEN cube["spectrum"]
    ELSE IF spatial = 0 THEN cube["cube"]
    ELSE cube[subsets[spatial].region]

\* float(x['result']) * u.Unit(x['unit']): the spectral axis is in um
Wavelength(n) == Num(n, Length)

(***************************************************************************)
(* sorted(cubeviz.get_interactive_regions().keys())[-2:]: the names        *)
(* 'Subset N' of the spatial subsets, in the order of Python strings.      *)
(***************************************************************************)
RECURSIVE Digits(_)
Digits(n) == IF n < 10 THEN <<n>> ELSE Append(Digits(n \div 10), n % 10)

\* 'Subset m' < 'Subset n' as strings
StrLess(m, n) ==
    LET a == Digits(m)
        b == Digits(n)
        common == {i \in 1..Len(a) : i <= Len(b) /\ \A j \in 1..i : a[j] = b[j]}
        k == Cardinality(common) + 1
    IN  IF k > Len(a) THEN Len(a) < Len(b)
        ELSE IF k > Len(b) THEN FALSE
        ELSE a[k] < b[k]

RECURSIVE Sorted(_)
Sorted(S) ==
    IF S = {} THEN <<>>
    ELSE LET least == CHOOSE x \in S : \A y \in S \ {x} : StrLess(x, y)
         IN  <<least>> \o Sorted(S \ {least})

LastTwo(seq) == SubSeq(seq, IF Len(seq) > 2 THEN Len(seq) - 1 ELSE 1, Len(seq))

(***************************************************************************)
(* The kernel namespace.                                                   *)
(***************************************************************************)
Names ==
    {"central_region", "sigma_width", "centroid_wavelength", "velocity_dispersion",
     "bh_mass", "fractional_error", "regions", "wavelength_centroids",
     "angular_separation", "projected_distance_from_center", "rotation_velocity",
     "min_enclosed_mass", "bh_mass_fraction", "volume", "density"}

Bound(name) == ns[name] # <<>>
Val(name) == ns[name][1]
Bind(space, name, value) == [space EXCEPT ![name] = <<value>>]

Object(what) == [k |-> "object", v |-> what, d |-> Plain]
List(seq) == [k |-> "list", v |-> seq, d |-> Plain]
\* u.Quantity(list of wavelengths): an array; of an empty list, a dimensionless one
QuantityArray(seq) == [k |-> "array", v |-> seq, d |-> IF seq = <<>> THEN DimLess ELSE Length]

FnIdle == [op |-> "none", a |-> Num(0, Plain), b |-> Num(0, Plain), out |-> Num(0, Plain)]

\* the application as Cubeviz() and load_data leave it: no subset is being
\* edited, no selection tool is active, the plugins hold their defaults
MomentLabels == {"moment-0-h2", "moment-0-pa", "moment-1-pa", "moment-2-pa"}

\* the layers of the image viewers: the cube's flux in 'flux-viewer', its
\* uncertainty in 'uncert-viewer', and the moment maps added to either
DataLayer == [v \in {"flux-viewer", "uncert-viewer"} |->
                 IF v = "flux-viewer" THEN "flux" ELSE "uncert"]
Layers == MomentLabels \cup {"flux", "uncert"}

VizIdle ==
    [edit_subset |-> 0,
     spec_tool |-> "none",
     flux_tool |-> "none",
     mm |-> [spectral_subset |-> 0, continuum |-> "None", n_moment |-> 0,
             reference_wavelength |-> 0, label |-> "moment 0", viewer |-> "none"],
     se |-> [aperture |-> 0, wavelength_dependent |-> FALSE,
             aperture_method |-> "Center", function |-> "Sum"],
     layers |-> [l \in MomentLabels |-> <<>>],
     ll |-> [lists |-> {}, plotted |-> {}, rs_redshift |-> ""],
     selected_line |-> "",
     po |-> [viewer |-> "flux-viewer", layer |-> "flux"],
     styles |-> [l \in Layers |-> [image_colormap |-> "gray", stretch_preset |-> 100]],
     extracted |-> <<>>,
     run |-> 0,
     reruns |-> 0]

Init ==
    /\ cube \in Cubes
    /\ subsets = <<>>
    /\ la = [spatial_subset |-> 0, spectral_subset |-> 0]
    /\ po = [viewer |-> "flux-viewer", layer |-> 0, line_opacity |-> 10, line_width |-> 1]
    /\ ns = [n \in Names |-> <<>>]
    /\ last = "none"
    /\ err = "none"
    /\ fn = FnIdle
    /\ viz = VizIdle

(***************************************************************************)
(* The cells.  A cell runs its statements in order; the first exception    *)
(* ends it, keeping what the statements before it did.                     *)
(***************************************************************************)
Completes(cell, space, plugin) ==
    /\ last' = cell
    /\ err' = "none"
    /\ ns' = space
    /\ la' = plugin

Raises(cell, type, space, plugin) ==
    /\ last' = cell
    /\ err' = type
    /\ ns' = space
    /\ la' = plugin

\* the user drags a spectral region in the spectrum viewer
SelectSpectralRegion ==
    /\ Len(subsets) < MaxSubsets
    /\ subsets' = Append(subsets, SpectralSubset)
    /\ UNCHANGED <<cube, la, po, ns, last, err, fn, viz>>

\* cell 5686c71f: central_region, load_regions([central_region]), set_line_style('Subset 1')
LoadCentralRegion ==
    /\ Len(subsets) < MaxSubsets
    /\ subsets' = LoadRegions(<<"central">>)
    /\ po' = [viewer |-> "spectrum-viewer", layer |-> 1, line_opacity |-> 9, line_width |-> 3]
    /\ Completes("5686c71f", Bind(ns, "central_region", Object(<<"central">>)), la)
    /\ UNCHANGED <<cube, fn, viz>>

\* Variants of the velocity-dispersion cell, as a slip in it would make them.
\* (1) with no spectral subset it measures the default entry, the entire spectrum
MeasureVelocityDispersionOnDefault ==
    LET cell == "4547762a"
        spectral == IF SpectralChoices = {} THEN 0 ELSE 2
        plugin == [spatial_subset |-> 1, spectral_subset |-> spectral]
        results == GetResults(1, spectral)
        velocity_dispersion ==
            VelocityDispersion(Wavelength(results.centroid), Wavelength(results.sigma))
    IN  /\ IF 1 \notin SpatialChoices THEN Raises(cell, "ValueError", ns, la)
           ELSE IF spectral = 2 /\ 2 \notin SpectralChoices
                THEN Raises(cell, "ValueError", ns, [la EXCEPT !.spatial_subset = 1])
           ELSE Completes(cell,
                          Bind(Bind(Bind(ns, "sigma_width", Wavelength(results.sigma)),
                                    "centroid_wavelength", Wavelength(results.centroid)),
                               "velocity_dispersion", velocity_dispersion), plugin)
        /\ UNCHANGED <<cube, subsets, po, fn, viz>>

\* (2) it does not set spatial_subset and measures the plugin's current one
MeasureVelocityDispersionKeepsSpatial ==
    LET cell == "4547762a"
        both == [la EXCEPT !.spectral_subset = 2]
        results == GetResults(both.spatial_subset, both.spectral_subset)
        velocity_dispersion ==
            VelocityDispersion(Wavelength(results.centroid), Wavelength(results.sigma))
    IN  /\ IF SpectralChoices = {} THEN Raises(cell, "Exception", ns, la)
           ELSE IF 2 \notin SpectralChoices THEN Raises(cell, "ValueError", ns, la)
           ELSE Completes(cell,
                          Bind(Bind(Bind(ns, "sigma_width", Wavelength(results.sigma)),
                                    "centroid_wavelength", Wavelength(results.centroid)),
                               "velocity_dispersion", velocity_dispersion), both)
        /\ UNCHANGED <<cube, subsets, po, fn, viz>>

\* cell 4547762a: the velocity dispersion of 'Subset 1' in the line of 'Subset 2'
MeasureVelocityDispersion ==
    LET cell == "4547762a"
        available_spectral_subsets == Cardinality(SpectralChoices)
        spatial == [la EXCEPT !.spatial_subset = 1]
        both == [spatial EXCEPT !.spectral_subset = 2]
        results == GetResults(both.spatial_subset, both.spectral_subset)
        sigma_width == Wavelength(results.sigma)
        centroid_wavelength == Wavelength(results.centroid)
        measured == Bind(Bind(ns, "sigma_width", sigma_width),
                         "centroid_wavelength", centroid_wavelength)
        velocity_dispersion == VelocityDispersion(centroid_wavelength, sigma_width)
    IN  /\ IF available_spectral_subsets = 0 THEN Raises(cell, "Exception", ns, la)
           ELSE IF 1 \notin SpatialChoices THEN Raises(cell, "ValueError", ns, la)
           ELSE IF 2 \notin SpectralChoices THEN Raises(cell, "ValueError", ns, spatial)
           ELSE IF IsRaise(velocity_dispersion)
                THEN Raises(cell, ErrorOf(velocity_dispersion), measured, both)
           ELSE Completes(cell, Bind(measured, "velocity_dispersion", velocity_dispersion), both)
        /\ UNCHANGED <<cube, subsets, po, fn, viz>>

\* Variant of Derive: an unbound input is taken for NaN instead of ending the cell
DeriveDefaulting(cell, needs, name, value) ==
    /\ IF \E n \in needs : ~Bound(n) THEN Completes(cell, Bind(ns, name, NaN(Plain)), la)
       ELSE IF IsRaise(value) THEN Raises(cell, ErrorOf(value), ns, la)
       ELSE Completes(cell, Bind(ns, name, value), la)
    /\ UNCHANGED <<cube, subsets, po, fn, viz>>

\* a cell that binds one name to a formula of names bound before
Derive(cell, needs, name, value) ==
    /\ IF \E n \in needs : ~Bound(n) THEN Raises(cell, "NameError", ns, la)
       ELSE IF IsRaise(value) THEN Raises(cell, ErrorOf(value), ns, la)
       ELSE Completes(cell, Bind(ns, name, value), la)
    /\ UNCHANGED <<cube, subsets, po, fn, viz>>

\* cell d29a14f3
ComputeBhMass ==
    Derive("d29a14f3", {"velocity_dispersion"}, "bh_mass",
           BlackHoleMass(Val("velocity_dispersion")))

\* cell 6cc6cf0a
ComputeFractionalError ==
    Derive("6cc6cf0a", {"bh_mass"}, "fractional_error", FractionalError(Val("bh_mass")))

\* cell 6ceb4ea4: regions, load_regions(regions)
LoadTwoRegions ==
    /\ Len(subsets) + 2 <= MaxSubsets
    /\ subsets' = LoadRegions(<<"a", "b">>)
    /\ Completes("6ceb4ea4", Bind(ns, "regions", Object(<<"a", "b">>)), la)
    /\ UNCHANGED <<cube, po, fn, viz>>

\* Variants of the centroid cell, as a slip in it would make them.
\* (1) the missing selection is reported as a ValueError
MeasureCentroidsValueError ==
    LET cell == "8596534a"
        emptied == Bind(ns, "wavelength_centroids", List(<<>>))
        loop == LastTwo(Sorted(SpatialChoices))
        centroids == [i \in 1..Len(loop) |-> GetResults(loop[i], 2).centroid]
        looped == IF loop = <<>> THEN emptied
                  ELSE Bind(emptied, "centroid_wavelength", Wavelength(centroids[Len(loop)]))
        plugin == IF loop = <<>> THEN [la EXCEPT !.spectral_subset = 2]
                  ELSE [spatial_subset |-> loop[Len(loop)], spectral_subset |-> 2]
    IN  /\ IF SpectralChoices = {} THEN Raises(cell, "ValueError", ns, la)
           ELSE IF 2 \notin SpectralChoices THEN Raises(cell, "ValueError", emptied, la)
           ELSE Completes(cell, Bind(looped, "wavelength_centroids",
                                     QuantityArray(centroids)), plugin)
        /\ UNCHANGED <<cube, subsets, po, fn, viz>>

\* (2) a rejected 'Subset 2' ends the cell only after the loop has measured
\* with the spectral subset the plugin had
MeasureCentroidsRaisesLate ==
    LET cell == "8596534a"
        emptied == Bind(ns, "wavelength_centroids", List(<<>>))
        spectral == IF 2 \in SpectralChoices THEN 2 ELSE la.spectral_subset
        loop == LastTwo(Sorted(SpatialChoices))
        centroids == [i \in 1..Len(loop) |-> GetResults(loop[i], spectral).centroid]
        looped == IF loop = <<>> THEN emptied
                  ELSE Bind(emptied, "centroid_wavelength", Wavelength(centroids[Len(loop)]))
        plugin == IF loop = <<>> THEN [la EXCEPT !.spectral_subset = spectral]
                  ELSE [spatial_subset |-> loop[Len(loop)], spectral_subset |-> spectral]
        measured == Bind(looped, "wavelength_centroids", QuantityArray(centroids))
    IN  /\ IF SpectralChoices = {} THEN Raises(cell, "Exception", ns, la)
           ELSE IF 2 \notin SpectralChoices THEN Raises(cell, "ValueError", measured, plugin)
           ELSE Completes(cell, measured, plugin)
        /\ UNCHANGED <<cube, subsets, po, fn, viz>>

\* (3) the plugin's selection is put back once the loop has measured
MeasureCentroidsRestoresSelection ==
    LET cell == "8596534a"
        emptied == Bind(ns, "wavelength_centroids", List(<<>>))
        loop == LastTwo(Sorted(SpatialChoices))
        centroids == [i \in 1..Len(loop) |-> GetResults(loop[i], 2).centroid]
        looped == IF loop = <<>> THEN emptied
                  ELSE Bind(emptied, "centroid_wavelength", Wavelength(centroids[Len(loop)]))
    IN  /\ IF SpectralChoices = {} THEN Raises(cell, "Exception", ns, la)
           ELSE IF 2 \notin SpectralChoices THEN Raises(cell, "ValueError", emptied, la)
           ELSE Completes(cell, Bind(looped, "wavelength_centroids",
                                     QuantityArray(centroids)), la)
        /\ UNCHANGED <<cube, subsets, po, fn, viz>>

\* cell 8596534a: the line centroid in each of the last two spatial subsets
MeasureCentroids ==
    LET cell == "8596534a"
        available_spectral_subsets == Cardinality(SpectralChoices)
        emptied == Bind(ns, "wavelength_centroids", List(<<>>))
        spectral == [la EXCEPT !.spectral_subset = 2]
        loop == LastTwo(Sorted(SpatialChoices))
        centroids == [i \in 1..Len(loop) |-> GetResults(loop[i], 2).centroid]
        looped == IF loop = <<>> THEN emptied
                  ELSE Bind(emptied, "centroid_wavelength",
                            Wavelength(centroids[Len(loop)]))
        plugin == IF loop = <<>> THEN spectral
                  ELSE [spectral EXCEPT !.spatial_subset = loop[Len(loop)]]
    IN  /\ IF available_spectral_subsets = 0 THEN Raises(cell, "Exception", ns, la)
           ELSE IF 2 \notin SpectralChoices THEN Raises(cell, "ValueError", emptied, la)
           ELSE Completes(cell, Bind(looped, "wavelength_centroids",
                                     QuantityArray(centroids)), plugin)
        /\ UNCHANGED <<cube, subsets, po, fn, viz>>

\* cell 562abfb0: region_a.center.separation(region_b.center).to(u.arcsec)
SkySeparation(regions) ==
    Num(IF regions.v[1] = regions.v[2] THEN 0 ELSE SeparationMas, Angle)

ComputeAngularSeparation ==
    Derive("562abfb0", {"regions"}, "angular_separation", SkySeparation(Val("regions")))

\* cell cd2b5bd0
ComputeProjectedDistance ==
    Derive("cd2b5bd0", {"angular_separation"}, "projected_distance_from_center",
           ProjectedDistance(Val("angular_separation")))

\* cell 5e20c4e2
ComputeRotationVelocity ==
    Derive("5e20c4e2", {"wavelength_centroids"}, "rotation_velocity",
           RotationVelocity(Val("wavelength_centroids")))

\* cell f6689133
ComputeEnclosedMass ==
    Derive("f6689133", {"projected_distance_from_center", "rotation_velocity"},
           "min_enclosed_mass",
           EnclosedMass(Val("projected_distance_from_center"), Val("rotation_velocity")))

\* cell a085bb69 (the print that follows reads projected_distance_from_center,
\* which is bound whenever min_enclosed_mass is)
ComputeMassFraction ==
    Derive("a085bb69", {"min_enclosed_mass", "bh_mass"},
           "bh_mass_fraction", MassFraction(Val("min_enclosed_mass"), Val("bh_mass")))

\* Variant of the density cell: the radius is cubed in place
\* (projected_distance_from_center **= 3) before the volume is taken of it
ComputeDensityInPlace ==
    LET cell == "65f262ae"
        radius == Val("projected_distance_from_center")
        cubed == Num(radius.v * radius.v * radius.v, DimPow(DimOf(radius), 300))
        volume == SphereVolume(radius)
        sized == Bind(Bind(ns, "projected_distance_from_center", cubed), "volume", volume)
    IN  /\ IF ~Bound("projected_distance_from_center") THEN Raises(cell, "NameError", ns, la)
           ELSE IF ~Bound("min_enclosed_mass") THEN Raises(cell, "NameError", sized, la)
           ELSE Completes(cell, Bind(sized, "density",
                                     SphereDensity(Val("min_enclosed_mass"), volume)), la)
        /\ UNCHANGED <<cube, subsets, po, fn, viz>>

\* cell 65f262ae: volume, then density
ComputeDensity ==
    LET cell == "65f262ae"
        volume == SphereVolume(Val("projected_distance_from_center"))
        sized == Bind(ns, "volume", volume)
    IN  /\ IF ~Bound("projected_distance_from_center") THEN Raises(cell, "NameError", ns, la)
           ELSE IF ~Bound("min_enclosed_mass") THEN Raises(cell, "NameError", sized, la)
           ELSE Completes(cell, Bind(sized, "density",
                                     SphereDensity(Val("min_enclosed_mass"), volume)), la)
        /\ UNCHANGED <<cube, subsets, po, fn, viz>>

Next ==
    \/ SelectSpectralRegion
    \/ LoadCentralRegion
    \/ MeasureVelocityDispersion
    \/ ComputeBhMass
    \/ ComputeFractionalError
    \/ LoadTwoRegions
    \/ MeasureCentroids
    \/ ComputeAngularSeparation
    \/ ComputeProjectedDistance
    \/ ComputeRotationVelocity
    \/ ComputeEnclosedMass
    \/ ComputeMassFraction
    \/ ComputeDensity

Spec == Init /\ [][Next]_vars

(***************************************************************************)
(* The formulas on their own: each is applied to operands drawn from       *)
(* bounded sets, among them operands of another dimension and plain        *)
(* numbers.                                                                *)
(***************************************************************************)
RestWavelength == 1000

Wavelengths == {Num(RestWavelength + k, Length) : k \in -MaxShift..MaxShift}
Velocities == {Num(v, Velocity) : v \in -MaxVel..MaxVel}
Radii == {Num(r, Length) : r \in -MaxRadius..MaxRadius}
Angles == {Num(1000 * k, Angle) : k \in 0..MaxAngle}
Masses == {Num(MSigmaTable[v + 1], Mass) : v \in 0..MaxVel} \cup {Num(Log10BhMassLit, Mass)}
Misfits == {Num(1, Plain), Num(0, Plain), Num(1, Mass)}

Applied(op, a, b, out) == [op |-> op, a |-> a, b |-> b, out |-> out]
notebook == <<cube, subsets, la, po, ns, last, err, viz>>

ApplyDoppler ==
    \E x \in Wavelengths \cup Misfits, rest \in Wavelengths \cup Misfits :
        /\ fn' = Applied("doppler_velocity", x, rest, DopplerRelativistic(x, rest))
        /\ UNCHANGED notebook

ApplyBlackHoleMass ==
    \E v \in Velocities \cup Misfits \cup {Num(1, Length)} :
        /\ fn' = Applied("black_hole_mass", v, Num(0, Plain), BlackHoleMass(v))
        /\ UNCHANGED notebook

ApplyFractionalError ==
    \E m \in Masses \cup Misfits \cup {Num(1, Length)} :
        /\ fn' = Applied("fractional_error", m, Num(0, Plain), FractionalError(m))
        /\ UNCHANGED notebook

ApplyProjectedDistance ==
    \E angle \in Angles \cup Misfits \cup {Num(1, Length)} :
        /\ fn' = Applied("projected_distance", angle, Num(0, Plain), ProjectedDistance(angle))
        /\ UNCHANGED notebook

ApplyEnclosedMass ==
    \E r \in Radii \cup Misfits, v \in Velocities \cup Misfits \cup {Num(1, Length)} :
        /\ fn' = Applied("enclosed_mass", r, v, EnclosedMass(r, v))
        /\ UNCHANGED notebook

ApplySphereDensity ==
    \E m \in Masses \cup {Num(0, Mass)}, r \in Radii :
        /\ fn' = Applied("sphere_density", m, r, SphereDensity(m, SphereVolume(r)))
        /\ UNCHANGED notebook

\* the loop of cell 8596534a, in a session that held `earlier` subsets, those in
\* `spatial` being spatial ones, when load_regions(regions) added two more
ApplyLoopSubsets ==
    \E earlier \in 0..MaxEarlier :
        \E spatial \in {S \in SUBSET (1..earlier) : Cardinality(S) <= 2} :
            /\ fn' = Applied("loop_subsets", Num(earlier, Plain), Object(spatial),
                             List(LastTwo(Sorted(spatial \cup {earlier + 1, earlier + 2}))))
            /\ UNCHANGED notebook

InitFn ==
    /\ Init
    /\ cube = RotatingCube

NextFn ==
    \/ ApplyDoppler
    \/ ApplyBlackHoleMass
    \/ ApplyFractionalError
    \/ ApplyProjectedDistance
    \/ ApplyEnclosedMass
    \/ ApplySphereDensity
    \/ ApplyLoopSubsets

SpecFn == InitFn /\ [][NextFn]_vars

(***************************************************************************)
(* The NIRSpec notebook (src/unnamed/part_001): a second Cubeviz session.  *)
(* Its cells create four subsets with apply_roi and point the Line         *)
(* Analysis, Moment Maps and Spectral Extraction plugins at them by name.  *)
(* The cells run from the top; up to MaxReruns times a cell is executed    *)
(* out of its turn (again, or ahead of the cells above it).  The line      *)
(* lists and the plot options are state of their own: no cell on subsets   *)
(* or moment maps reads them.                                              *)
(***************************************************************************)
PaschenAlphaReference == 19065      \* mm.reference_wavelength = 1.9065, in 1e-4 um

NirspecNames == {"spec_viewer", "ll", "la", "mm", "po", "flux_viewer", "se"}

\* the cells in the order of the notebook
NirspecOrder ==
    <<"c7d696c4", "15671e5b", "7ca488fb", "d8435dca", "f0e6cbfa", "b0062ac8",
      "025a21c0", "82cef9b1", "3fb5ba00", "c9ec6b25", "84589473", "e443fb60",
      "0a8b662f", "52456a0b", "e9c8df81", "92130a6b">>

\* the place of a cell in the notebook
Turn(cell) == CHOOSE i \in 1..Len(NirspecOrder) : NirspecOrder[i] = cell

\* XRangeROI(2.1544, 2.1588), XRangeROI(1.9033, 1.9085)
SpectralRange(line) == [kind |-> "spectral", region |-> line]

SpatialIn(seq) == {i \in 1..Len(seq) : seq[i].kind = "spatial"}
SpectralIn(seq) == {i \in 1..Len(seq) : seq[i].kind = "spectral"}

InitNirspec ==
    /\ cube = RotatingCube
    /\ subsets = <<>>
    /\ la = [spatial_subset |-> 0, spectral_subset |-> 0, continuum |-> "None"]
    /\ po = [viewer |-> "flux-viewer", layer |-> 0, line_opacity |-> 10, line_width |-> 1]
    /\ ns = [n \in NirspecNames |-> <<>>]
    /\ last = "none"
    /\ err = "none"
    /\ fn = FnIdle
    /\ viz = VizIdle

\* a cell is executed in its turn, or out of it while that is still allowed
InTurn(cell) == viz.run < Len(NirspecOrder) /\ NirspecOrder[viz.run + 1] = cell
MayRun(cell) == InTurn(cell) \/ viz.reruns < MaxReruns
Ran(cell) ==
    IF InTurn(cell) THEN [viz EXCEPT !.run = @ + 1] ELSE [viz EXCEPT !.reruns = @ + 1]

\* viewer.apply_roi(roi): with no subset selected for editing a new subset is
\* created and selected; otherwise the selected subset is replaced by the roi
ApplyRoi(edit, roi) ==
    IF edit = 0 THEN Append(subsets, roi) ELSE [subsets EXCEPT ![edit] = roi]

EditedAfter(edit) == IF edit = 0 THEN Len(subsets) + 1 ELSE edit

\* toolbar.active_tool = tool: activating a selection tool selects "create new"
\* (0); assigning the tool that is active already may activate nothing
Activated(current, tool) == IF current # tool THEN {0} ELSE {0, viz.edit_subset}

\* a plugin's subset selection falls back to its default entry when the subset
\* it names is no longer among its choices
Kept(selected, choices) == IF selected \in choices THEN selected ELSE 0

\* a cell ended by an exception, after the statements that led to `session`
Fails(cell, type, space, session) ==
    /\ last' = cell
    /\ err' = type
    /\ ns' = space
    /\ viz' = session
    /\ UNCHANGED <<cube, subsets, la, po, fn>>

\* apply_roi(roi) while `edit` is selected for editing, the toolbars as given
DrawRoi(cell, space, edit, roi, spec_tool, flux_tool) ==
    LET drawn == ApplyRoi(edit, roi)
    IN  /\ subsets' = drawn
        /\ la' = [la EXCEPT !.spatial_subset = Kept(@, SpatialIn(drawn)),
                            !.spectral_subset = Kept(@, SpectralIn(drawn))]
        /\ viz' = [Ran(cell) EXCEPT !.edit_subset = EditedAfter(edit),
                                    !.spec_tool = spec_tool,
                                    !.flux_tool = flux_tool,
                                    !.mm.spectral_subset = Kept(@, SpectralIn(drawn)),
                                    !.se.aperture = Kept(@, SpatialIn(drawn))]
        /\ ns' = space
        /\ last' = cell
        /\ err' = "none"
        /\ UNCHANGED <<cube, po, fn>>

\* cell c7d696c4: spec_viewer, apply_roi(XRangeROI) on the H2 1-0S(1) line
HighlightH2 ==
    LET cell == "c7d696c4"
    IN  /\ MayRun(cell)
        /\ DrawRoi(cell, Bind(ns, "spec_viewer", Object("spectrum-viewer")),
                   viz.edit_subset, SpectralRange("H2"), viz.spec_tool, viz.flux_tool)

\* Variant of cell 15671e5b: apply_roi without activating the tool first
HighlightPaschenAlphaNoTool ==
    LET cell == "15671e5b"
    IN  /\ MayRun(cell)
        /\ IF ~Bound("spec_viewer") THEN Fails(cell, "NameError", ns, Ran(cell))
           ELSE DrawRoi(cell, ns, viz.edit_subset, SpectralRange("Paschen-alpha"),
                        viz.spec_tool, viz.flux_tool)

\* cell 15671e5b: the xrange tool is activated, then apply_roi(XRangeROI) on Paschen-alpha
HighlightPaschenAlpha ==
    LET cell == "15671e5b"
    IN  /\ MayRun(cell)
        /\ IF ~Bound("spec_viewer") THEN Fails(cell, "NameError", ns, Ran(cell))
           ELSE \E edit \in Activated(viz.spec_tool, "bqplot:xrange") :
                    DrawRoi(cell, ns, edit, SpectralRange("Paschen-alpha"),
                            "bqplot:xrange", viz.flux_tool)

\* load_preset_linelist: the lines of a preset list (of each list the line
\* the notebook plots and one of the lines it does not)
LinesOf ==
    [list \in {"H2", "H-Paschen-Brackett"} |->
        IF list = "H2" THEN {"H 1-0S(1)", "H 1-0S(0)"} ELSE {"HI 4-3", "HI 5-3"}]

\* la._obj.line_items: a plotted line is listed as its name and rest wavelength
NameRest(line) ==
    CASE line = "H 1-0S(1)" -> "H 1-0S(1) 2.121"
      [] line = "H 1-0S(0)" -> "H 1-0S(0) 2.223"
      [] line = "HI 4-3" -> "HI 4-3 1.875"
      [] OTHER -> "HI 5-3 1.282"

LineItems(plotted) == {NameRest(line) : line \in plotted}

\* cubeviz.plot_spectral_line(line) for each line of `lines` in turn, from
\* `plotted`: a line of no loaded list ends it with a KeyError
RECURSIVE PlotLines(_, _, _)
PlotLines(lines, loaded, plotted) ==
    IF lines = <<>> THEN [plotted |-> plotted, err |-> "none"]
    ELSE IF Head(lines) \notin UNION {LinesOf[list] : list \in loaded}
         THEN [plotted |-> plotted, err |-> "KeyError"]
    ELSE PlotLines(Tail(lines), loaded, plotted \cup {Head(lines)})

\* cubeviz.erase_spectral_lines(): none of the lines shown stays
EraseSpectralLines(shown) == shown \ shown

\* Variant of a line-list cell: it plots without erase_spectral_lines()
LineListCellKeepsLines(cell, list, lines) ==
    LET space == Bind(ns, "ll", Object("Line Lists"))
        loaded == viz.ll.lists \cup {list}
        shown == viz.ll.plotted \cup LinesOf[list]
        plot == PlotLines(lines, loaded, shown)
    IN  /\ last' = cell
        /\ err' = plot.err
        /\ ns' = space
        /\ viz' = [Ran(cell) EXCEPT !.ll.lists = loaded, !.ll.plotted = plot.plotted]
        /\ UNCHANGED <<cube, subsets, la, po, fn>>

\* a line-list cell: ll, load_line_list(load_preset_linelist(list)), which
\* shows the lines of the list, erase_spectral_lines(), plot_spectral_line
\* of each of `lines`
LineListCell(cell, list, lines) ==
    LET space == Bind(ns, "ll", Object("Line Lists"))
        loaded == viz.ll.lists \cup {list}
        shown == viz.ll.plotted \cup LinesOf[list]
        erased == EraseSpectralLines(shown)
        plot == PlotLines(lines, loaded, erased)
    IN  /\ last' = cell
        /\ err' = plot.err
        /\ ns' = space
        /\ viz' = [Ran(cell) EXCEPT !.ll.lists = loaded, !.ll.plotted = plot.plotted]
        /\ UNCHANGED <<cube, subsets, la, po, fn>>

\* cell 7ca488fb
LoadH2Lines ==
    /\ MayRun("7ca488fb")
    /\ LineListCell("7ca488fb", "H2", <<"H 1-0S(1)">>)

\* cell d8435dca
LoadHydrogenLines ==
    /\ MayRun("d8435dca")
    /\ LineListCell("d8435dca", "H-Paschen-Brackett", <<"HI 4-3", "H 1-0S(1)">>)

\* cell f0e6cbfa: la, la.spectral_subset = 'Subset 1', la.continuum = 'Surrounding'
LineAnalysisH2 ==
    LET cell == "f0e6cbfa"
        space == Bind(ns, "la", Object("Line Analysis"))
    IN  /\ MayRun(cell)
        /\ last' = cell
        /\ ns' = space
        /\ viz' = Ran(cell)
        /\ IF 1 \notin SpectralChoices
           THEN err' = "ValueError" /\ la' = la
           ELSE /\ err' = "none"
                /\ la' = [la EXCEPT !.spectral_subset = 1, !.continuum = "Surrounding"]
        /\ UNCHANGED <<cube, subsets, po, fn>>

\* cell b0062ac8: print(la._obj.line_items), la._obj.selected_line = 'H 1-0S(1) 2.121'.
\* The attribute of the plugin object takes the string as given; with the
\* line not among line_items the redshift that follows from the selection
\* has no line to be computed of, which may end the cell.
SelectLine ==
    LET cell == "b0062ac8"
        selected == [Ran(cell) EXCEPT !.selected_line = "H 1-0S(1) 2.121"]
    IN  /\ MayRun(cell)
        /\ IF ~Bound("la") THEN Fails(cell, "NameError", ns, Ran(cell))
           ELSE /\ last' = cell
                /\ ns' = ns
                /\ viz' = selected
                /\ IF selected.selected_line \in LineItems(viz.ll.plotted)
                   THEN err' = "none"
                   ELSE err' \in {"none", "ValueError"}
                /\ UNCHANGED <<cube, subsets, la, po, fn>>

\* cell 025a21c0: ll.rs_redshift = la._obj.selected_line_redshift, the redshift
\* of the selected line (of no line: 0)
SetRedshift ==
    LET cell == "025a21c0"
    IN  /\ MayRun(cell)
        /\ IF ~Bound("ll") \/ ~Bound("la") THEN Fails(cell, "NameError", ns, Ran(cell))
           ELSE /\ last' = cell
                /\ err' = "none"
                /\ ns' = ns
                /\ viz' = [Ran(cell) EXCEPT !.ll.rs_redshift = viz.selected_line]
                /\ UNCHANGED <<cube, subsets, la, po, fn>>

\* Variant of a Moment Maps cell: it leaves mm.n_moment as it finds it
MomentMapKeepsOrder(cell, subset, n_moment, reference, label, viewer) ==
    LET space == Bind(ns, "mm", Object("Moment Maps"))
        set == [spectral_subset |-> subset,
                continuum |-> "Surrounding",
                n_moment |-> viz.mm.n_moment,
                reference_wavelength |->
                    IF reference = <<>> THEN viz.mm.reference_wavelength ELSE reference[1],
                label |-> label,
                viewer |-> viewer]
        result == [viewer |-> set.viewer,
                   n_moment |-> set.n_moment,
                   range |-> subsets[set.spectral_subset].region,
                   continuum |-> set.continuum,
                   reference_wavelength |->
                       IF set.n_moment = 0 THEN 0 ELSE set.reference_wavelength]
    IN  IF subset \notin SpectralChoices THEN Fails(cell, "ValueError", space, Ran(cell))
        ELSE /\ last' = cell
             /\ err' = "none"
             /\ ns' = space
             /\ viz' = [Ran(cell) EXCEPT !.mm = set, !.layers[label] = <<result>>]
             /\ UNCHANGED <<cube, subsets, la, po, fn>>

\* a Moment Maps cell: mm, mm.spectral_subset, continuum, n_moment,
\* reference_wavelength (when the cell sets one), add_results.label and
\* .viewer, calculate_moment().  The result is the moment of the plugin's
\* order over the plugin's subset, added under the plugin's label to the
\* plugin's viewer; the reference wavelength enters moments of order 1 and 2.
MomentMap(cell, subset, n_moment, reference, label, viewer) ==
    LET space == Bind(ns, "mm", Object("Moment Maps"))
        set == [spectral_subset |-> subset,
                continuum |-> "Surrounding",
                n_moment |-> n_moment,
                reference_wavelength |->
                    IF reference = <<>> THEN viz.mm.reference_wavelength ELSE reference[1],
                label |-> label,
                viewer |-> viewer]
        result == [viewer |-> set.viewer,
                   n_moment |-> set.n_moment,
                   range |-> subsets[set.spectral_subset].region,
                   continuum |-> set.continuum,
                   reference_wavelength |->
                       IF set.n_moment = 0 THEN 0 ELSE set.reference_wavelength]
    IN  IF subset \notin SpectralChoices THEN Fails(cell, "ValueError", space, Ran(cell))
        ELSE /\ last' = cell
             /\ err' = "none"
             /\ ns' = space
             /\ viz' = [Ran(cell) EXCEPT !.mm = set, !.layers[label] = <<result>>]
             /\ UNCHANGED <<cube, subsets, la, po, fn>>

\* cell 82cef9b1
MomentZeroH2 ==
    /\ MayRun("82cef9b1")
    /\ MomentMap("82cef9b1", 1, 0, <<>>, "moment-0-h2", "uncert-viewer")

\* cell 3fb5ba00
MomentZeroPa ==
    /\ MayRun("3fb5ba00")
    /\ MomentMap("3fb5ba00", 2, 0, <<>>, "moment-0-pa", "flux-viewer")

\* cell c9ec6b25
MomentOnePa ==
    /\ MayRun("c9ec6b25")
    /\ MomentMap("c9ec6b25", 2, 1, <<PaschenAlphaReference>>, "moment-1-pa", "flux-viewer")

\* cell 84589473
MomentTwoPa ==
    /\ MayRun("84589473")
    /\ MomentMap("84589473", 2, 2, <<PaschenAlphaReference>>, "moment-2-pa", "uncert-viewer")

\* the layers a viewer shows
LayersIn(viewer) ==
    {DataLayer[viewer]} \cup
        {l \in MomentLabels : viz.layers[l] # <<>> /\ viz.layers[l][1].viewer = viewer}

\* po.viewer = viewer: a change of viewer selects one of that viewer's layers
Viewed(viewer) ==
    IF viz.po.viewer = viewer THEN {viz.po}
    ELSE {[viewer |-> viewer, layer |-> l] : l \in LayersIn(viewer)}

\* Variant of a Plot Options cell: the colormap is set before the layer is selected
PlotOptionsCellStylesFirst(cell, space, viewer, layer, stretch_preset) ==
    \E viewed \in Viewed(viewer) :
        LET styled == [viz.styles EXCEPT ![viewed.layer].image_colormap = "rainbow"]
        IN  IF layer \notin LayersIn(viewer)
            THEN Fails(cell, "ValueError", space,
                       [Ran(cell) EXCEPT !.po = viewed, !.styles = styled])
            ELSE /\ last' = cell
                 /\ err' = "none"
                 /\ ns' = space
                 /\ viz' = [Ran(cell) EXCEPT
                               !.po = [viewer |-> viewer, layer |-> layer],
                               !.styles = IF stretch_preset = <<>> THEN styled
                                          ELSE [styled EXCEPT ![layer].stretch_preset =
                                                                  stretch_preset[1]]]
                 /\ UNCHANGED <<cube, subsets, la, po, fn>>

\* a Plot Options cell: po.viewer, po.layer, which must be a layer of the
\* viewer, po.stretch_preset.value (when the cell sets one),
\* po.image_colormap.value = 'rainbow'
PlotOptionsCell(cell, space, viewer, layer, stretch_preset) ==
    \E viewed \in Viewed(viewer) :
        IF layer \notin LayersIn(viewer)
        THEN Fails(cell, "ValueError", space, [Ran(cell) EXCEPT !.po = viewed])
        ELSE /\ last' = cell
             /\ err' = "none"
             /\ ns' = space
             /\ viz' = [Ran(cell) EXCEPT
                           !.po = [viewer |-> viewer, layer |-> layer],
                           !.styles[layer] =
                               [image_colormap |-> "rainbow",
                                stretch_preset |->
                                    IF stretch_preset = <<>> THEN @.stretch_preset
                                    ELSE stretch_preset[1]]]
             /\ UNCHANGED <<cube, subsets, la, po, fn>>

\* cell e443fb60: po, the colormap of 'moment-1-pa' in 'flux-viewer'
StyleMomentOne ==
    /\ MayRun("e443fb60")
    /\ PlotOptionsCell("e443fb60", Bind(ns, "po", Object("Plot Options")),
                       "flux-viewer", "moment-1-pa", <<>>)

\* cell 0a8b662f: the stretch and colormap of 'moment-2-pa' in 'uncert-viewer'
StyleMomentTwo ==
    /\ MayRun("0a8b662f")
    /\ IF ~Bound("po") THEN Fails("0a8b662f", "NameError", ns, Ran("0a8b662f"))
       ELSE PlotOptionsCell("0a8b662f", ns, "uncert-viewer", "moment-2-pa", <<90>>)

\* cell 52456a0b: flux_viewer, the rectangle tool is activated, apply_roi(RectangularROI)
SelectRectangle ==
    LET cell == "52456a0b"
    IN  /\ MayRun(cell)
        /\ \E edit \in Activated(viz.flux_tool, "bqplot:rectangle") :
               DrawRoi(cell, Bind(ns, "flux_viewer", Object("flux-viewer")), edit,
                       SpatialSubset("rectangle"), viz.spec_tool, "bqplot:rectangle")

\* cell e9c8df81: the circle tool is activated, apply_roi(CircularROI) around the nucleus
SelectNucleus ==
    LET cell == "e9c8df81"
    IN  /\ MayRun(cell)
        /\ IF ~Bound("flux_viewer") THEN Fails(cell, "NameError", ns, Ran(cell))
           ELSE \E edit \in Activated(viz.flux_tool, "bqplot:truecircle") :
                    DrawRoi(cell, ns, edit, SpatialSubset("circle"),
                            viz.spec_tool, "bqplot:truecircle")

\* cell 92130a6b: se, se.aperture = 'Subset 4', wavelength_dependent, aperture_method,
\* function, collapse_to_spectrum()
ExtractNucleus ==
    LET cell == "92130a6b"
        space == Bind(ns, "se", Object("Spectral Extraction"))
        set == [aperture |-> 4, wavelength_dependent |-> TRUE,
                aperture_method |-> "Exact", function |-> "Sum"]
    IN  /\ MayRun(cell)
        /\ IF 4 \notin SpatialChoices THEN Fails(cell, "ValueError", space, Ran(cell))
           ELSE /\ last' = cell
                /\ err' = "none"
                /\ ns' = space
                /\ viz' = [Ran(cell) EXCEPT !.se = set,
                                            !.extracted = <<subsets[set.aperture].region>>]
                /\ UNCHANGED <<cube, subsets, la, po, fn>>

NextNirspec ==
    \/ HighlightH2
    \/ HighlightPaschenAlpha
    \/ LoadH2Lines
    \/ LoadHydrogenLines
    \/ LineAnalysisH2
    \/ SelectLine
    \/ SetRedshift
    \/ MomentZeroH2
    \/ MomentZeroPa
    \/ MomentOnePa
    \/ MomentTwoPa
    \/ StyleMomentOne
    \/ StyleMomentTwo
    \/ SelectRectangle
    \/ SelectNucleus
    \/ ExtractNucleus

SpecNirspec == InitNirspec /\ [][NextNirspec]_vars

(***************************************************************************)
(* Properties.                                                             *)
(***************************************************************************)
MeasurementCells == {"4547762a", "8596534a"}

\* C1: executed while the session has no spectral subset, the velocity-dispersion
\* cell and the centroid cell end in an exception, bind no name and leave the
\* plugin's selection alone: no region is measured by default.
C1_NoSelectionNoResult ==
    [][(SpectralChoices = {} /\ subsets' = subsets /\ last' \in MeasurementCells)
          => /\ err' # "none"
             /\ ns' = ns
             /\ la' = la]_vars

C1_Witness ==
    /\ SpectralChoices = {}
    /\ SpatialChoices # {}
    /\ last \in MeasurementCells
    /\ err # "none"
    /\ ~Bound("velocity_dispersion")
    /\ ~Bound("wavelength_centroids")

\* what Line Analysis reports for 'Subset 1' in the line of 'Subset 2', as a velocity
SubsetOneDispersion ==
    LET results == GetResults(1, 2)
    IN  VelocityDispersion(Wavelength(results.centroid), Wavelength(results.sigma))

\* the line centroids of the last two spatial subsets, in the order of their names
LastTwoCentroids ==
    LET loop == LastTwo(Sorted(SpatialChoices))
    IN  [i \in 1..Len(loop) |-> cube[subsets[loop[i]].region].centroid]

BhBranchCells == {"4547762a", "d29a14f3", "6cc6cf0a"}
BhBranchNames == {"velocity_dispersion", "bh_mass", "fractional_error"}
EnclosedBranchCells == {"8596534a", "562abfb0", "5e20c4e2", "f6689133"}
EnclosedBranchNames ==
    {"wavelength_centroids", "angular_separation", "rotation_velocity", "min_enclosed_mass"}

\* C2: the two branches do not depend on each other.  Whatever ran before, the
\* velocity dispersion and the black-hole mass are those of 'Subset 1' in the
\* line of 'Subset 2', and the centroid cell yields the centroids of the last two
\* spatial subsets; and no cell of one branch rebinds a name of the other.
C2_Results ==
    /\ Bound("velocity_dispersion")
          => /\ 1 \in SpatialChoices
             /\ 2 \in SpectralChoices
             /\ Val("velocity_dispersion") = SubsetOneDispersion
    /\ Bound("bh_mass")
          => /\ 1 \in SpatialChoices
             /\ 2 \in SpectralChoices
             /\ Val("bh_mass") = BlackHoleMass(SubsetOneDispersion)
    /\ (last = "8596534a" /\ err = "none")
          => Val("wavelength_centroids") = QuantityArray(LastTwoCentroids)

C2_Frame ==
    /\ (subsets' = subsets /\ last' \in BhBranchCells)
          => \A n \in EnclosedBranchNames : ns'[n] = ns[n]
    /\ (subsets' = subsets /\ last' \in EnclosedBranchCells)
          => \A n \in BhBranchNames : ns'[n] = ns[n]

C2_BranchesIndependent == []C2_Results /\ [][C2_Frame]_vars

\* both branches done, the velocity-dispersion cell after the centroid cell
C2_Witness ==
    /\ Bound("bh_mass")
    /\ Bound("min_enclosed_mass")
    /\ Len(Val("wavelength_centroids").v) = 2
    /\ la.spatial_subset = 1
    /\ Val("min_enclosed_mass").v > 0

\* the names each deriving cell reads, and the name it binds
Consumes ==
    [c \in {"d29a14f3", "6cc6cf0a", "562abfb0", "cd2b5bd0", "5e20c4e2", "f6689133",
            "a085bb69", "65f262ae"} |->
        CASE c = "d29a14f3" -> {"velocity_dispersion"}
          [] c = "6cc6cf0a" -> {"bh_mass"}
          [] c = "562abfb0" -> {"regions"}
          [] c = "cd2b5bd0" -> {"angular_separation"}
          [] c = "5e20c4e2" -> {"wavelength_centroids"}
          [] c = "f6689133" -> {"projected_distance_from_center", "rotation_velocity"}
          [] c = "a085bb69" -> {"min_enclosed_mass", "bh_mass"}
          [] OTHER -> {"projected_distance_from_center", "min_enclosed_mass"}]

Produces ==
    [c \in DOMAIN Consumes |->
        CASE c = "d29a14f3" -> "bh_mass"
          [] c = "6cc6cf0a" -> "fractional_error"
          [] c = "562abfb0" -> "angular_separation"
          [] c = "cd2b5bd0" -> "projected_distance_from_center"
          [] c = "5e20c4e2" -> "rotation_velocity"
          [] c = "f6689133" -> "min_enclosed_mass"
          [] c = "a085bb69" -> "bh_mass_fraction"
          [] OTHER -> "density"]

\* a derived name holds what its formula gives for the present values of its inputs
Fresh(name) ==
    CASE name = "bh_mass" -> Val(name) = BlackHoleMass(Val("velocity_dispersion"))
      [] name = "projected_distance_from_center"
            -> Val(name) = ProjectedDistance(Val("angular_separation"))
      [] name = "rotation_velocity"
            -> Val(name) = RotationVelocity(Val("wavelength_centroids"))
      [] name = "min_enclosed_mass"
            -> Val(name) = EnclosedMass(Val("projected_distance_from_center"),
                                        Val("rotation_velocity"))
      [] OTHER -> TRUE

\* C3 as stated: a deriving cell that completes has read only inputs that are
\* bound and fresh.
C3_NeverStale ==
    [][\A c \in DOMAIN Consumes :
          (subsets' = subsets /\ last' = c /\ err' = "none")
             => \A n \in Consumes[c] : Bound(n) /\ Fresh(n)]_vars

\* C3 as amended: a derived name is bound only when the names its formula reads
\* are bound; a deriving cell executed while one of them is unbound ends in
\* NameError and does not bind its result.
C3_BoundInputs == \A c \in DOMAIN Consumes : Bound(Produces[c]) => \A n \in Consumes[c] : Bound(n)

C3_UnboundFails ==
    \A c \in DOMAIN Consumes :
        (subsets' = subsets /\ last' = c /\ \E n \in Consumes[c] : ~Bound(n))
           => /\ err' = "NameError"
              /\ ns'[Produces[c]] = ns[Produces[c]]

C3_ComputedAfterInputs == []C3_BoundInputs /\ [][C3_UnboundFails]_vars

C3_Witness ==
    /\ Bound("bh_mass_fraction")
    /\ Bound("density")
    /\ Bound("fractional_error")

\* C4 as stated: the failure for a missing spectral subset is an InsufficientInputError.
C4_TypedError ==
    (SpectralChoices = {} /\ last \in MeasurementCells /\ err # "none")
       => err = "InsufficientInputError"

\* C4 as amended: that failure is the built-in Exception, of no type of its own.
C4_PlainException ==
    (SpectralChoices = {} /\ last \in MeasurementCells /\ err # "none")
       => err = "Exception"

C4_Witness ==
    /\ SpectralChoices = {}
    /\ last = "8596534a"
    /\ err = "Exception"

\* C5 as stated: the black-hole mass of a dispersion <= 0 is a DomainError.
C5_DomainError ==
    (fn.op = "black_hole_mass" /\ fn.a.d = Velocity /\ fn.a.v <= 0)
       => ErrorOf(fn.out) = "DomainError"

\* C5 as amended: the black-hole mass of a dispersion <= 0 raises nothing; it is
\* 0 M_sun for the dispersion 0 and NaN M_sun for a negative one.
C5_ZeroOrNaN ==
    (fn.op = "black_hole_mass" /\ fn.a.d = Velocity /\ fn.a.v <= 0)
       => /\ ~IsRaise(fn.out)
          /\ fn.a.v = 0 => fn.out = Num(0, Mass)
          /\ fn.a.v < 0 => fn.out = NaN(Mass)

C5_Witness ==
    /\ fn.op = "black_hole_mass"
    /\ fn.a.d = Velocity
    /\ fn.a.v < 0
    /\ fn.out.k = "nan"

\* C6 as stated: the density of a sphere of radius <= 0 is a DomainError.
C6_DomainError ==
    (fn.op = "sphere_density" /\ fn.b.v <= 0) => ErrorOf(fn.out) = "DomainError"

\* C6 as amended: the density of a sphere of radius <= 0 raises nothing; for the
\* radius 0 it is NaN when the mass is 0 and +inf when it is positive, for a
\* negative radius it is a number <= 0.
C6_NoError ==
    (fn.op = "sphere_density" /\ fn.b.v <= 0)
       => /\ ~IsRaise(fn.out)
          /\ fn.out.d = Density
          /\ fn.b.v = 0 => fn.out.k = (IF fn.a.v = 0 THEN "nan" ELSE "posinf")
          /\ fn.b.v < 0 => IsNum(fn.out) /\ fn.out.v <= 0

C6_Witness ==
    /\ fn.op = "sphere_density"
    /\ fn.b.v = 0
    /\ fn.a.v = 0
    /\ fn.out.k = "nan"

UnitErrors == {"InvalidUnitError", "UnitConversionError", "UnitsError", "AttributeError", "TypeError"}

ExpectedDim ==
    [n \in Names \ {"central_region", "regions", "wavelength_centroids"} |->
        CASE n \in {"sigma_width", "centroid_wavelength", "projected_distance_from_center"}
                -> Length
          [] n \in {"velocity_dispersion", "rotation_velocity"} -> Velocity
          [] n \in {"bh_mass", "min_enclosed_mass"} -> Mass
          [] n = "fractional_error" -> DimLess
          [] n = "angular_separation" -> Angle
          [] n = "bh_mass_fraction" -> Plain
          [] n = "volume" -> Volume
          [] OTHER -> Density]

\* C7 as stated: a cell whose arithmetic multiplies or divides a quantity by a
\* unit-less number (cd2b5bd0: the radian value and 2; 65f262ae: 4/3 pi) ends
\* in InvalidUnitError.
C7_ScalarRaises ==
    /\ (/\ last = "cd2b5bd0"
        /\ Bound("angular_separation")
        /\ ~IsQuantity(ToValueRad(Val("angular_separation"))))
          => err = "InvalidUnitError"
    /\ (last = "65f262ae" /\ Bound("projected_distance_from_center"))
          => err = "InvalidUnitError"

\* C7 as amended: these cells multiply by the unit-less number without an error
\* about units; every name holds a value of the dimension its formula is meant
\* to give; and no cell ever ends in an error about units.
C7_ScalarsAccepted ==
    /\ (last = "cd2b5bd0" /\ Bound("angular_separation"))
          => /\ err = "none"
             /\ ~IsQuantity(ToValueRad(Val("angular_separation")))
             /\ Bound("projected_distance_from_center")
    /\ (last = "65f262ae" /\ Bound("projected_distance_from_center"))
          => /\ err \in {"none", "NameError"}
             /\ Bound("volume")
    /\ \A n \in DOMAIN ExpectedDim : Bound(n) => Val(n).d = ExpectedDim[n]
    /\ err \notin UnitErrors

C7_Witness ==
    /\ last = "cd2b5bd0"
    /\ err = "none"
    /\ Val("projected_distance_from_center").v > 0
    /\ Bound("density")

\* C8: a cell that ends in an exception has run only the statements before the
\* one that raised: it binds no name but wavelength_centroids = [] (centroid
\* cell, 'Subset 2' rejected) or volume (density cell, mass unbound), it changes
\* the plugin only by the spatial_subset set before 'Subset 2' was rejected, and
\* it does not measure or derive anything afterwards.
C8_FailFast ==
    [][(err' # "none" /\ subsets' = subsets)
          => /\ \A n \in Names :
                   ns'[n] # ns[n]
                      => \/ /\ last' = "8596534a"
                            /\ err' = "ValueError"
                            /\ n = "wavelength_centroids"
                            /\ ns'[n] = <<List(<<>>)>>
                         \/ /\ last' = "65f262ae"
                            /\ err' = "NameError"
                            /\ n = "volume"
             /\ la' # la
                   => /\ last' = "4547762a"
                      /\ err' = "ValueError"
                      /\ la' = [la EXCEPT !.spatial_subset = 1]
             /\ po' = po]_vars

C8_Witness ==
    /\ last = "8596534a"
    /\ err = "ValueError"
    /\ Val("wavelength_centroids") = List(<<>>)
    /\ SpatialChoices # {}

\* distance_to_target * 1 milli-arcsec in radians, in 1e-4 pc
ParsecPerMas == (Ngc7319Distance * NanoRadPerMas) \div 1000

Abs(n) == IF n < 0 THEN -n ELSE n

\* C9 as stated: the projected distance is distance_to_target times the angle in
\* radians (to 2 pc).
C9_FullSeparation ==
    (fn.op = "projected_distance" /\ fn.a.d = Angle)
       => /\ IsNum(fn.out)
          /\ Abs(10000 * fn.out.v - ParsecPerMas * fn.a.v) <= 20000

\* C9 as amended: the projected distance is half of distance_to_target times the
\* angle in radians (to 2 pc), a length.
C9_HalfSeparation ==
    (fn.op = "projected_distance" /\ fn.a.d = Angle)
       => /\ IsNum(fn.out)
          /\ fn.out.d = Length
          /\ Abs(20000 * fn.out.v - ParsecPerMas * fn.a.v) <= 40000

C9_Witness ==
    /\ fn.op = "projected_distance"
    /\ fn.a.d = Angle
    /\ fn.a.v > 0
    /\ fn.out.v > 0

\* C10: for a radius >= 0 and a velocity v, the enclosed mass is a number >= 0
\* and the same for v and -v.
C10_Magnitude ==
    (fn.op = "enclosed_mass" /\ fn.a.d = Length /\ fn.a.v >= 0 /\ fn.b.d = Velocity)
       => /\ IsNum(fn.out)
          /\ fn.out.v >= 0
          /\ fn.out = EnclosedMass(fn.a, Num(-fn.b.v, Velocity))

C10_Witness ==
    /\ fn.op = "enclosed_mass"
    /\ fn.a.d = Length
    /\ fn.a.v > 0
    /\ fn.b.d = Velocity
    /\ fn.b.v < 0
    /\ fn.out.v > 0

\* the names each cell assigns
Assigns ==
    [c \in DOMAIN Consumes \cup MeasurementCells \cup {"5686c71f", "6ceb4ea4"} |->
        CASE c = "5686c71f" -> {"central_region"}
          [] c = "4547762a" -> {"sigma_width", "centroid_wavelength", "velocity_dispersion"}
          [] c = "6ceb4ea4" -> {"regions"}
          [] c = "8596534a" -> {"wavelength_centroids", "centroid_wavelength"}
          [] c = "65f262ae" -> {"volume", "density"}
          [] OTHER -> {Produces[c]}]

\* the cell that, from the top of the notebook, assigns a name first
Binder ==
    [n \in Names |->
        CHOOSE c \in DOMAIN Assigns :
            /\ n \in Assigns[c]
            /\ (n = "centroid_wavelength" => c = "4547762a")]

\* C11 as stated: a name that is bound is not changed by any step but the one
\* that produces it.
C11_NoOverwrite ==
    [][\A n \in Names : (Bound(n) /\ last' # Binder[n]) => ns'[n] = ns[n]]_vars

\* C11 as amended: a cell changes no names but those it assigns, and a deriving
\* cell changes none of the names it reads; the centroid cell assigns
\* centroid_wavelength, which the velocity-dispersion cell assigns too.
C11_OnlyOwnNames ==
    [][/\ \A n \in Names : ns'[n] # ns[n] => n \in Assigns[last']
       /\ (subsets' = subsets /\ last' \in DOMAIN Consumes)
             => \A n \in Consumes[last'] : ns'[n] = ns[n]]_vars

\* the centroid cell has overwritten the centroid the velocity-dispersion cell bound
C11_Witness ==
    /\ last = "8596534a"
    /\ err = "none"
    /\ Bound("velocity_dispersion")
    /\ Val("centroid_wavelength") # Wavelength(cube[subsets[1].region].centroid)

\* C12 as stated: no step changes the Line Analysis plugin's selection.
C12_SelectionUntouched == [][la' = la]_vars

\* C12 as amended: the cells that do not measure leave the selection alone; the
\* velocity-dispersion cell, when it completes, leaves it at 'Subset 1' and
\* 'Subset 2'; the centroid cell leaves it at 'Subset 2' and the spatial subset
\* measured last.
C12_SelectionLeftSet ==
    [][/\ (subsets' # subsets \/ last' \notin MeasurementCells) => la' = la
       /\ (subsets' = subsets /\ last' = "4547762a" /\ err' = "none")
             => la' = [spatial_subset |-> 1, spectral_subset |-> 2]
       /\ (subsets' = subsets /\ last' = "8596534a" /\ err' = "none")
             => LET loop == LastTwo(Sorted(SpatialChoices))
                IN  /\ la'.spectral_subset = 2
                    /\ la'.spatial_subset =
                          (IF loop = <<>> THEN la.spatial_subset ELSE loop[Len(loop)])]_vars

C12_Witness ==
    /\ last = "8596534a"
    /\ err = "none"
    /\ Bound("velocity_dispersion")
    /\ la.spatial_subset > 1
    /\ la.spectral_subset = 2

\* c (x^2 - rest^2) / (x^2 + rest^2): the velocity of the wavelength x relative
\* to the wavelength rest, in 100 km/s
RelativisticVelocity(x, rest) ==
    Num(Trunc(SpeedOfLight * (x * x - rest * rest), x * x + rest * rest), Velocity)

\* C13: the velocity dispersion is the velocity of centroid + sigma width
\* relative to the centroid, both of the one measurement of 'Subset 1'; the
\* rotation velocity is the velocity of the second of the two measured centroids
\* relative to the mean of the two (both doubled, to keep the mean whole).
C13_Anchored ==
    /\ (last = "4547762a" /\ err = "none")
          => LET measured == cube[subsets[1].region]
             IN  /\ Val("centroid_wavelength") = Wavelength(measured.centroid)
                 /\ Val("sigma_width") = Wavelength(measured.sigma)
                 /\ Val("velocity_dispersion") =
                       RelativisticVelocity(measured.centroid + measured.sigma,
                                            measured.centroid)
    /\ (last = "5e20c4e2" /\ err = "none")
          => LET centroids == Val("wavelength_centroids").v
             IN  /\ Len(centroids) = 2
                 /\ Val("rotation_velocity") =
                       RelativisticVelocity(2 * centroids[2], centroids[1] + centroids[2])

C13_Witness ==
    /\ last = "5e20c4e2"
    /\ err = "none"
    /\ Val("rotation_velocity").v # 0
    /\ Bound("velocity_dispersion")
    /\ Val("velocity_dispersion").v > 0

\* C14: the black-hole mass of a positive dispersion is greater than that of
\* every smaller positive dispersion.
C14_StrictlyIncreasing ==
    (fn.op = "black_hole_mass" /\ fn.a.d = Velocity /\ fn.a.v > 0)
       => /\ IsNum(fn.out)
          /\ \A s1 \in 1..(fn.a.v - 1) : BlackHoleMass(Num(s1, Velocity)).v < fn.out.v

C14_Witness ==
    /\ fn.op = "black_hole_mass"
    /\ fn.a.d = Velocity
    /\ fn.a.v >= 3
    /\ fn.out.v > MSigmaTable[3]

\* C15: the velocity of a positive wavelength relative to itself is exactly 0.
C15_ZeroShiftZeroVelocity ==
    (fn.op = "doppler_velocity" /\ fn.a.d = Length /\ fn.a.v > 0 /\ fn.b = fn.a)
       => fn.out = Num(0, Velocity)

C15_Witness ==
    /\ fn.op = "doppler_velocity"
    /\ fn.a.d = Length
    /\ fn.a.v > RestWavelength
    /\ fn.b = fn.a
    /\ fn.out.v = 0

\* C16: the fractional error of a non-zero mass is its difference to the
\* literature mass over the mass itself (in thousandths), hence 0 for the
\* literature mass.
C16_OverMeasured ==
    (fn.op = "fractional_error" /\ fn.a.d = Mass /\ fn.a.v # 0)
       => /\ fn.out = Num(Trunc((fn.a.v - Log10BhMassLit) * 1000, fn.a.v), DimLess)
          /\ fn.a.v = Log10BhMassLit => fn.out.v = 0

C16_Witness ==
    /\ fn.op = "fractional_error"
    /\ fn.a = Num(Log10BhMassLit, Mass)
    /\ fn.out = Num(0, DimLess)

\* C17: the enclosed mass within the radius 0 is 0 M_sun for every velocity.
C17_ZeroRadiusZeroMass ==
    (fn.op = "enclosed_mass" /\ fn.a = Num(0, Length) /\ fn.b.d = Velocity)
       => fn.out = Num(0, Mass)

C17_Witness ==
    /\ fn.op = "enclosed_mass"
    /\ fn.a = Num(0, Length)
    /\ fn.b.d = Velocity
    /\ fn.b.v # 0
    /\ fn.out = Num(0, Mass)

\* the cells that call apply_roi, the roi of each, and the tool each activates
RoiCells == {"c7d696c4", "15671e5b", "52456a0b", "e9c8df81"}

RoiOf ==
    [c \in RoiCells |->
        CASE c = "c7d696c4" -> SpectralRange("H2")
          [] c = "15671e5b" -> SpectralRange("Paschen-alpha")
          [] c = "52456a0b" -> SpatialSubset("rectangle")
          [] OTHER -> SpatialSubset("circle")]

ToolOf ==
    [c \in RoiCells |->
        CASE c = "c7d696c4" -> "none"
          [] c = "15671e5b" -> "bqplot:xrange"
          [] c = "52456a0b" -> "bqplot:rectangle"
          [] OTHER -> "bqplot:truecircle"]

\* the subsets of the NIRSpec notebook run from the top
NirspecSubsets ==
    <<SpectralRange("H2"), SpectralRange("Paschen-alpha"),
      SpatialSubset("rectangle"), SpatialSubset("circle")>>

\* a cell has been executed
CellStep == viz'.run # viz.run \/ viz'.reruns # viz.reruns

\* while the cells have run in order: Subset 1..4 are the H2 range, the
\* Paschen-alpha range, the rectangle and the circle, as far as they are
\* created; no cell has failed; and each plugin reference made so far named a
\* subset of the kind and range meant
C18_InOrder ==
    viz.reruns = 0
       => /\ subsets = SubSeq(NirspecSubsets, 1,
                              Cardinality({i \in 1..viz.run : NirspecOrder[i] \in RoiCells}))
          /\ err = "none"
          /\ viz.run >= Turn("f0e6cbfa") => la.spectral_subset = 1 /\ subsets[1].region = "H2"
          /\ viz.run >= Turn("82cef9b1") => viz.layers["moment-0-h2"][1].range = "H2"
          /\ viz.run >= Turn("3fb5ba00")
                => viz.layers["moment-0-pa"][1].range = "Paschen-alpha"
          /\ viz.run >= Turn("c9ec6b25")
                => viz.layers["moment-1-pa"][1].range = "Paschen-alpha"
          /\ viz.run >= Turn("84589473")
                => viz.layers["moment-2-pa"][1].range = "Paschen-alpha"
          /\ viz.run >= Turn("92130a6b")
                => viz.se.aperture = 4 /\ viz.extracted = <<"circle">>

\* every apply_roi call adds a subset and leaves the existing ones as they were
C18_NewSubset ==
    (CellStep /\ last' \in RoiCells /\ err' = "none")
       => /\ Len(subsets') = Len(subsets) + 1
          /\ SubSeq(subsets', 1, Len(subsets)) = subsets

C18_CreateOrReplace ==
    (CellStep /\ last' \in RoiCells /\ err' = "none")
       => LET roi == RoiOf[last']
              tool == IF last' \in {"c7d696c4", "15671e5b"} THEN viz.spec_tool
                      ELSE viz.flux_tool
              created == Append(subsets, roi)
          IN  IF viz.edit_subset = 0 \/ ToolOf[last'] \notin {"none", tool}
              THEN subsets' = created
              ELSE /\ subsets' \in {created, [subsets EXCEPT ![viz.edit_subset] = roi]}
                   /\ last' = "c7d696c4" => subsets' # created

C19_HardcodedNamesValid ==
    [][(/\ Bound("central_region")
        /\ SpectralChoices # {}
        /\ subsets' = subsets
        /\ last' \in MeasurementCells)
          => /\ 2 \in SpectralChoices
             /\ last' = "4547762a"
                   => 1 \in SpatialChoices /\ subsets[1] = SpatialSubset("central")
             /\ err' # "ValueError"]_vars

\* C20: the loop measures the two subsets that load_regions(regions) created,
\* regions[0] first and regions[1] second, however many subsets came earlier.
C20_LoopMeasuresLoadedRegions ==
    fn.op = "loop_subsets" => fn.out = List(<<fn.a.v + 1, fn.a.v + 2>>)

(***************************************************************************)
(* C21: executing the velocity-dispersion cell (4547762a) again gives the  *)
(* velocity_dispersion it gave before, whatever cells ran in between and   *)
(* wherever they left the plugin's selection: the cell sets spatial_subset *)
(* and spectral_subset itself before it reads the results.                 *)
(***************************************************************************)
C21_SameOnReexecution ==
    [][(/\ last' = "4547762a"
        /\ err' = "none"
        /\ Bound("velocity_dispersion"))
       => /\ ns'["velocity_dispersion"] = ns["velocity_dispersion"]
          /\ la' = [spatial_subset |-> 1, spectral_subset |-> 2]]_vars

\* the cell has completed again (bh_mass needs an earlier execution) after the
\* centroid cell ran on a cube whose regions differ
C21_Witness ==
    /\ last = "4547762a"
    /\ err = "none"
    /\ cube = RotatingCube
    /\ Bound("bh_mass")
    /\ Bound("wavelength_centroids")
    /\ Val("wavelength_centroids").v # <<>>
    /\ Val("velocity_dispersion") =
           VelocityDispersion(Wavelength(cube["central"].centroid),
                              Wavelength(cube["central"].sigma))

(***************************************************************************)
(* C22: each of the four moment-map results is computed from the spectral  *)
(* subset, continuum and moment order its own cell sets, and is added      *)
(* under its own label to the viewer its cell names, whatever settings     *)
(* earlier cells left in the plugin; no result overwrites another; and a   *)
(* result of moment order 1 or 2 has a reference wavelength set.           *)
(***************************************************************************)
MomentCell ==
    [l \in MomentLabels |->
        CASE l = "moment-0-h2" -> [cell |-> "82cef9b1", subset |-> 1, n_moment |-> 0,
                                   viewer |-> "uncert-viewer"]
          [] l = "moment-0-pa" -> [cell |-> "3fb5ba00", subset |-> 2, n_moment |-> 0,
                                   viewer |-> "flux-viewer"]
          [] l = "moment-1-pa" -> [cell |-> "c9ec6b25", subset |-> 2, n_moment |-> 1,
                                   viewer |-> "flux-viewer"]
          [] OTHER -> [cell |-> "84589473", subset |-> 2, n_moment |-> 2,
                       viewer |-> "uncert-viewer"]]

\* every result present is the one its label's cell asks for
C22_Results ==
    \A l \in MomentLabels :
        viz.layers[l] # <<>> =>
            LET result == viz.layers[l][1]
            IN  /\ result.viewer = MomentCell[l].viewer
                /\ result.n_moment = MomentCell[l].n_moment
                /\ result.continuum = "Surrounding"
                /\ result.range \in {"H2", "Paschen-alpha"}
                /\ result.n_moment \in {1, 2} => result.reference_wavelength > 0

\* a Moment Maps cell that completes leaves its result, determined by the cell
\* and the subset it names alone, and leaves every other result as it was;
\* no other step changes a result
C22_OwnCell ==
    \A l \in MomentLabels :
        IF CellStep /\ last' = MomentCell[l].cell /\ err' = "none"
        THEN /\ viz'.layers[l] =
                    <<[viewer |-> MomentCell[l].viewer,
                       n_moment |-> MomentCell[l].n_moment,
                       range |-> subsets[MomentCell[l].subset].region,
                       continuum |-> "Surrounding",
                       reference_wavelength |->
                           IF MomentCell[l].n_moment = 0 THEN 0
                           ELSE PaschenAlphaReference]>>
             /\ viz'.mm.label = l
             /\ \A other \in MomentLabels \ {l} : viz'.layers[other] = viz.layers[other]
        ELSE viz'.layers[l] = viz.layers[l]

C22_OwnSettingsOwnLabel == []C22_Results /\ [][C22_OwnCell]_vars

\* the moment-0-h2 cell has completed again after the three other cells left
\* their subset, order and reference wavelength in the plugin
C22_Witness ==
    /\ last = "82cef9b1"
    /\ err = "none"
    /\ \A l \in MomentLabels : viz.layers[l] # <<>>
    /\ viz.mm.reference_wavelength = PaschenAlphaReference
    /\ viz.layers["moment-0-h2"][1].reference_wavelength = 0
    /\ viz.layers["moment-0-h2"][1].range = "H2"
    /\ viz.layers["moment-2-pa"][1].n_moment = 2

(***************************************************************************)
(* C23: the layer Plot Options has selected is a layer of the viewer it    *)
(* has selected, put there by an earlier step: 'moment-1-pa' is in         *)
(* 'flux-viewer' and 'moment-2-pa' in 'uncert-viewer' when selected; and   *)
(* the colormap and stretch a Plot Options cell sets change the selected   *)
(* layer of the selected viewer and no other layer.                        *)
(***************************************************************************)
StyleCell ==
    [c \in {"e443fb60", "0a8b662f"} |->
        IF c = "e443fb60" THEN [viewer |-> "flux-viewer", layer |-> "moment-1-pa"]
        ELSE [viewer |-> "uncert-viewer", layer |-> "moment-2-pa"]]

C23_SelectedLayerShown ==
    /\ viz.po.layer \in LayersIn(viz.po.viewer)
    /\ \A c \in DOMAIN StyleCell :
           viz.po.layer = StyleCell[c].layer
              => /\ viz.po.viewer = StyleCell[c].viewer
                 /\ viz.layers[viz.po.layer] # <<>>
                 /\ viz.layers[viz.po.layer][1].viewer = viz.po.viewer

C23_StylesOnSelected ==
    IF CellStep /\ last' \in DOMAIN StyleCell /\ err' = "none"
    THEN /\ viz'.po = StyleCell[last']
         /\ viz'.styles[viz'.po.layer].image_colormap = "rainbow"
         /\ last' = "0a8b662f" => viz'.styles[viz'.po.layer].stretch_preset = 90
         /\ last' = "e443fb60" => viz'.styles[viz'.po.layer].stretch_preset =
                                      viz.styles[viz'.po.layer].stretch_preset
         /\ \A l \in Layers \ {viz'.po.layer} : viz'.styles[l] = viz.styles[l]
    ELSE viz'.styles = viz.styles

C23_SelectedLayerInViewer == []C23_SelectedLayerShown /\ [][C23_StylesOnSelected]_vars

\* both Plot Options cells have completed: each moment map has the style its
\* cell gave it, the layers of the cube have the style they had
C23_Witness ==
    /\ last = "0a8b662f"
    /\ err = "none"
    /\ viz.po = [viewer |-> "uncert-viewer", layer |-> "moment-2-pa"]
    /\ viz.styles["moment-2-pa"] = [image_colormap |-> "rainbow", stretch_preset |-> 90]
    /\ viz.styles["moment-1-pa"] = [image_colormap |-> "rainbow", stretch_preset |-> 100]
    /\ viz.styles["uncert"] = VizIdle.styles["uncert"]
    /\ viz.styles["flux"] = VizIdle.styles["flux"]
    /\ viz.layers["moment-0-h2"] # <<>>

(***************************************************************************)
(* C24: a line is plotted only when a line list holding it has been        *)
(* loaded; erase_spectral_lines leaves no line plotted before it, so when  *)
(* the second line-list cell has completed exactly 'HI 4-3' and            *)
(* 'H 1-0S(1)' are plotted; and the line selected for the redshift after   *)
(* the line-list cells, 'H 1-0S(1) 2.121', is one of the lines plotted     *)
(* then.                                                                   *)
(***************************************************************************)
C24_PlottedAreLoaded ==
    viz.ll.plotted \subseteq UNION {LinesOf[list] : list \in viz.ll.lists}

C24_Cells ==
    /\ (CellStep /\ last' = "7ca488fb")
          => err' = "none" /\ viz'.ll.plotted = {"H 1-0S(1)"}
    /\ (CellStep /\ last' = "d8435dca")
          => IF err' = "none" THEN viz'.ll.plotted = {"HI 4-3", "H 1-0S(1)"}
             ELSE viz'.ll.plotted = {"HI 4-3"} /\ "H2" \notin viz'.ll.lists
    /\ ~(CellStep /\ last' \in {"7ca488fb", "d8435dca"})
          => /\ viz'.ll.plotted = viz.ll.plotted
             /\ viz'.ll.lists = viz.ll.lists
    /\ (/\ CellStep
        /\ last' = "b0062ac8"
        /\ err' # "NameError"
        /\ viz.ll.lists = {"H2", "H-Paschen-Brackett"})
          => /\ err' = "none"
             /\ viz'.selected_line = "H 1-0S(1) 2.121"
             /\ viz'.selected_line \in LineItems(viz'.ll.plotted)

C24_PlottedFromLoadedLists == []C24_PlottedAreLoaded /\ [][C24_Cells]_vars

\* the line has been selected with the lines of the second line-list cell plotted
C24_Witness ==
    /\ last = "b0062ac8"
    /\ err = "none"
    /\ viz.selected_line = "H 1-0S(1) 2.121"
    /\ viz.ll.lists = {"H2", "H-Paschen-Brackett"}
    /\ viz.ll.plotted = {"HI 4-3", "H 1-0S(1)"}

=============================================================================
